---- MODULE Spec2Model ----
(***************************************************************************)
(* Model of the EditChannelSettings component                              *)
(* (webapp/src/components/modals/channel_settings/                         *)
(* edit_channel_settings.tsx): the subscription filter state, the          *)
(* asynchronous issue-metadata fetch and the submit path.                  *)
(*                                                                         *)
(* JavaScript runs every handler to completion, so each handler is one     *)
(* action.  A promise callback (.then) is an action of its own that fires  *)
(* when the collaborator's response arrives; responses may arrive in any   *)
(* order.                                                                  *)
(*                                                                         *)
(* A custom-field filter is represented by its key, an issue type by its   *)
(* id, and a message built from a template by a record of the template's   *)
(* arguments.  The project select is single-valued (isMulti is false), so  *)
(* a project selection holds at most one key.  lastOp is a history         *)
(* variable: the handler that ran last, its argument and what it saw.      *)
(* Spec is the filter form (project, issue types, fields, events, metadata *)
(* fetch); SubmitSpec is the submit path (name, project, fields, metadata  *)
(* fetch, create/edit request, close).                                     *)
(***************************************************************************)
EXTENDS Integers, Sequences, FiniteSets, TLC

\* ------------------------------------------------------------------ bounds
\* fetchJiraIssueMetadataForProjects calls that may be unresolved at once
MaxFetches == 2
\* custom-field filters in one selection
MaxFields == 2
\* create/edit requests that may be unresolved at once
MaxRequests == 2

\* ------------------------------------------------------------- input sets
ProjectKeys == {"OPS", "WEB"}
IssueTypeIds == {"Bug", "Task"}
FieldKeys == {"f1", "f2", "gone"}
\* JiraEventOptions values used as inputs
EventCodes == {"event_created", "event_updated_any"}

\* JavaScript null for the string-valued state fields
Null == "null"

\* ------------------------------------------------------------ sequences
Range(s) == {s[i] : i \in DOMAIN s}

NoDup(s) == \A i, j \in DOMAIN s : i # j => s[i] # s[j]

SeqsUpTo(S, n) == UNION {[1..k -> S] : k \in 0..n}

NoDupSeqs(S, n) == {s \in SeqsUpTo(S, n) : NoDup(s)}

\* Array.prototype.indexOf, 1-based; 0 when absent
IndexOf(s, v) == IF \E i \in DOMAIN s : s[i] = v
                 THEN CHOOSE i \in DOMAIN s : s[i] = v /\ \A j \in 1..(i-1) : s[j] # v
                 ELSE 0

RemoveAt(s, i) == [j \in 1..(Len(s) - 1) |-> IF j < i THEN s[j] ELSE s[j + 1]]

\* Array.prototype.splice(start, 1) with start = idx - 1: indexOf's -1 (here
\* 0) removes the last element, a start past the end removes nothing
Splice1(s, idx) == IF Len(s) = 0 \/ idx > Len(s) THEN s
                   ELSE IF idx = 0 THEN RemoveAt(s, Len(s))
                   ELSE RemoveAt(s, idx)

\* ----------------------------------------------------- handler arguments
\* A react-select onChange value: nothing (null/undefined), one bare value,
\* or an array.
NoValue == [kind |-> "none"]
Single(v) == [kind |-> "single", value |-> v]
List(s) == [kind |-> "list", value |-> s]

ProjectArgs == {NoValue} \cup {Single(k) : k \in ProjectKeys}
               \cup {List(s) : s \in SeqsUpTo(ProjectKeys, 1)}

IssueArgs == {NoValue} \cup {List(s) : s \in NoDupSeqs(IssueTypeIds, Cardinality(IssueTypeIds))}

EventArgs == {NoValue, Single("event_created"), List(<<>>),
              List(<<"event_updated_any", "event_created">>)}

FieldArgs == NoDupSeqs(FieldKeys, MaxFields)

FetchOutcomes == {"ok", "error", "data_error"}

\* error.message of a failed create, edit or delete
ErrorMessages == {"forbidden", "not found"}

\* What a create, edit or delete request resolves with: {data} or
\* {error: {message}}
Succeeded == [ok |-> TRUE]
Failed(message) == [ok |-> FALSE, message |-> message]
PersistResponses == {Succeeded} \cup {Failed(m) : m \in ErrorMessages}

\* --------------------------------------------------- the tracker's schema
\* What the metadata provider returns for a project: its filter fields in
\* the provider's order, each with the issue types it is applicable to.
\* "gone" is a field key that no schema holds any more.
Schema(k) == IF k = "OPS"
             THEN << [key |-> "f1", name |-> "Sprint", issueTypes |-> {"Task"}],
                     [key |-> "f2", name |-> "Epic Link", issueTypes |-> {"Bug"}] >>
             ELSE << [key |-> "f2", name |-> "Epic Link", issueTypes |-> {"Bug", "Task"}] >>

\* IssueType.name of the issue type with this id
IssueTypeName(id) == IF id = "Bug" THEN "Bug report" ELSE "Task item"

\* props.jiraIssueMetadata: nothing, or the metadata of the fetched projects
NoMetadata == [loaded |-> FALSE]
MetadataFor(keys) == [loaded |-> TRUE, projects |-> keys]

RECURSIVE FieldsOfProjects(_, _)
FieldsOfProjects(keys, wanted) ==
    IF keys = <<>> THEN <<>>
    ELSE (IF keys[1] \in wanted THEN Schema(keys[1]) ELSE <<>>)
         \o FieldsOfProjects(Tail(keys), wanted)

\* utils/jira_issue_metadata getCustomFieldFiltersForProjects: the filter
\* fields the metadata holds for the given projects; none without metadata
getCustomFieldFiltersForProjects(metadata, projectKeys) ==
    IF ~metadata.loaded \/ projectKeys = <<>> THEN <<>>
    ELSE FieldsOfProjects(metadata.projects, Range(projectKeys))

\* utils/jira_issue_metadata getConflictingFields: every field whose
\* definition excludes at least one of the chosen issue types, in the order
\* of fields, each with the issue types (in the chosen order) that do not
\* support it
getConflictingFields(fields, chosenIssueTypes, metadata) ==
    LET Excluded(f) == SelectSeq(chosenIssueTypes, LAMBDA t : t \notin f.issueTypes)
        Flagged == SelectSeq(fields, LAMBDA f : Excluded(f) # <<>>)
    IN  [i \in 1..Len(Flagged) |-> [field |-> Flagged[i], issueTypes |-> Excluded(Flagged[i])]]

\* ------------------------------------------------------------------ state
VARIABLES
    filters,                \* state.filters: projects, issue_types, events, fields
    fetchingIssueMetadata,  \* state.fetchingIssueMetadata
    error,                  \* state.error
    getMetaDataErr,         \* state.getMetaDataErr
    submitting,             \* state.submitting
    subscriptionName,       \* state.subscriptionName
    showConfirmModal,       \* state.showConfirmModal
    conflictingError,       \* state.conflictingError
    jiraIssueMetadata,      \* props.jiraIssueMetadata
    selectedSubscription,   \* props.selectedSubscription
    fetches,                \* unresolved metadata fetches: their projectKeys
    requests,               \* unresolved create/edit requests
    deletes,                \* unresolved delete requests
    closed,                 \* props.finishEditSubscription was called
    hook,                   \* hooks.js: the store, the last message and what the hook did
    lastOp                  \* the handler that ran last, with its argument

vars == <<filters, fetchingIssueMetadata, error, getMetaDataErr, submitting,
          subscriptionName, showConfirmModal, conflictingError, jiraIssueMetadata,
          selectedSubscription, fetches, requests, deletes, closed, hook, lastOp>>

\* state.getMetaDataErr values
NoMetaDataErr == [kind |-> "null"]
\* `The project ${projectKeys[0]} is unavailable. Please contact your system administrator.`
UnavailableMsg(projectKeys) == [kind |-> "unavailable", project |-> projectKeys[1]]

\* state.conflictingError values
NoConflict == [kind |-> "null"]
\* `Issue Type(s) "${name}" does not have filter field(s): "${fieldsStr}". ...`
\* fieldNames stands for the names joined with ', '
ConflictMsg(issueTypeName, fieldNames) ==
    [kind |-> "conflict", issueType |-> issueTypeName, fields |-> fieldNames]

\* 'A field in this subscription has been removed from Jira, ...'
RemovedFieldError == "removed_field"
EmptyFilters == [events |-> <<>>, projects |-> <<>>, issue_types |-> <<>>, fields |-> <<>>]

\* props.selectedSubscription when the modal is opened on a stored
\* subscription (one of its configured fields was since removed from Jira)
StoredSubscription ==
    [id |-> "sub1", name |-> "ops bugs",
     filters |-> [events |-> <<"event_created">>, projects |-> <<"OPS">>,
                  issue_types |-> <<"Bug">>, fields |-> <<"f2", "gone">>]]

NoSubscription == [id |-> Null]

\* hooks.js is not part of the modal: while the modal is modelled, no slash
\* command is in play
NoHook == [phase |-> "unused"]

\* ------------------------------------------------------- the constructor
Init ==
    /\ selectedSubscription \in {NoSubscription, StoredSubscription}
    /\ filters = IF selectedSubscription.id # Null
                 THEN selectedSubscription.filters ELSE EmptyFilters
    /\ subscriptionName = IF selectedSubscription.id # Null
                          THEN selectedSubscription.name ELSE Null
    /\ fetchingIssueMetadata = (Len(filters.projects) > 0)
    /\ fetches = IF Len(filters.projects) > 0 THEN <<filters.projects>> ELSE <<>>
    /\ error = Null
    /\ getMetaDataErr = NoMetaDataErr
    /\ submitting = FALSE
    /\ showConfirmModal = FALSE
    /\ conflictingError = NoConflict
    /\ jiraIssueMetadata = NoMetadata
    /\ requests = 0
    /\ deletes = 0
    /\ closed = FALSE
    /\ hook = NoHook
    /\ lastOp = [op |-> "constructor", arg |-> NoValue, before |-> NoValue]

\* ---------------------------------------------------------- pure pieces
\* `if (!v) v = []; else if (!Array.isArray(v)) v = [v];`
\* Mutant: a value that is not an array gives the empty array
ToArray_DropsSingle(value) == IF value.kind = "list" THEN value.value ELSE <<>>

ToArray(value) == IF value.kind = "none" THEN <<>>
                  ELSE IF value.kind = "single" THEN <<value.value>>
                  ELSE value.value

\* `value || []`
OrEmpty(value) == IF value.kind = "none" THEN <<>> ELSE value.value

\* `finalValue.length > this.state.filters.issue_types.length`
IsLonger(finalValue, issueTypes) == Len(finalValue) > Len(issueTypes)

\* Mutant: the filter compares the field's name with the selected key
SelectedConflicting_ByName(conflictingFields, fields) ==
    SelectSeq(conflictingFields, LAMBDA cf : \E i \in DOMAIN fields : fields[i] = cf.field.name)

\* Mutant: every conflicting field counts, selected or not
SelectedConflicting_Unfiltered(conflictingFields, fields) == conflictingFields

\* conflictingFields.filter((f1) => fields.find((f2) => f1.field.key === f2.key))
SelectedConflicting(conflictingFields, fields) ==
    SelectSeq(conflictingFields, LAMBDA cf : \E i \in DOMAIN fields : fields[i] = cf.field.key)

\* selectedConflictingFields.map((cf) => cf.field.name)
FieldNames(cfs) == [i \in DOMAIN cfs |-> cfs[i].field.name]

\* Mutant: only the top-level error is looked at
FetchFailed_TopLevelOnly(outcome) == outcome = "error"

\* `fetched.error || (fetched.data && fetched.data.error)`
FetchFailed(outcome) == outcome = "error" \/ outcome = "data_error"

\* `for (const v of fields) if (!filterFields.find((f) => f.key === v.key))`
HasRemovedField(fields, filterFields) ==
    \E i \in DOMAIN fields : ~\E j \in DOMAIN filterFields : filterFields[j].key = fields[i]

\* handleCreate's loop: a copy of fields, and for every v of fields whose key
\* is not among filterFields, configuredFields.splice(configuredFields.indexOf(v), 1)
RECURSIVE DropRemoved(_, _, _)
DropRemoved(todo, configured, filterFields) ==
    IF todo = <<>> THEN configured
    ELSE LET v == Head(todo)
             known == \E j \in DOMAIN filterFields : filterFields[j].key = v
         IN  DropRemoved(Tail(todo),
                         IF known THEN configured ELSE Splice1(configured, IndexOf(configured, v)),
                         filterFields)

\* Mutant: the index is taken in state.filters.fields, not in the copy
RECURSIVE DropRemoved_IndexInOriginal(_, _, _, _)
DropRemoved_IndexInOriginal(todo, original, configured, filterFields) ==
    IF todo = <<>> THEN configured
    ELSE LET v == Head(todo)
             known == \E j \in DOMAIN filterFields : filterFields[j].key = v
         IN  DropRemoved_IndexInOriginal(Tail(todo), original,
                 IF known THEN configured ELSE Splice1(configured, IndexOf(original, v)),
                 filterFields)

ConfiguredFields_IndexInOriginal(fields, filterFields) ==
    DropRemoved_IndexInOriginal(fields, fields, fields, filterFields)

ConfiguredFields(fields, filterFields) == DropRemoved(fields, fields, filterFields)

\* validator.validate(): the required name and project are given
Validate == subscriptionName # Null /\ subscriptionName # "" /\ Len(filters.projects) > 0

\* ------------------------------------------------------------- handlers
\* The fetch status the form is in: idle, fetching, ready or error
FetchStatus == IF fetchingIssueMetadata THEN "fetching"
               ELSE IF getMetaDataErr # NoMetaDataErr THEN "error"
               ELSE IF Len(filters.projects) > 0 THEN "ready"
               ELSE "idle"

\* Events, issue types and fields are all selected
HasFullSelection == /\ Len(filters.events) > 0
                    /\ Len(filters.issue_types) > 0
                    /\ Len(filters.fields) > 0

\* props.channel.id
ChannelId == "ch1"

\* this.props.clearIssueMetadata(): the store drops the issue metadata
clearIssueMetadata == NoMetadata

\* fetchIssueMetadata(projectKeys), up to the call of the collaborator: one
\* more unresolved fetch
StartFetch(pending, projectKeys) == Append(pending, projectKeys)

\* Mutant: the new filters are spread from state.filters, so the prior
\* selection survives
handleProjectChange_KeepsSelection(value) ==
    LET projects == ToArray(value)
    IN  /\ ~closed
        /\ Len(projects) > 0 => Len(fetches) < MaxFetches
        /\ filters' = [filters EXCEPT !.projects = projects]
        /\ jiraIssueMetadata' = clearIssueMetadata
        /\ fetches' = IF Len(projects) > 0 THEN StartFetch(fetches, projects) ELSE fetches
        /\ fetchingIssueMetadata' = (Len(projects) > 0)
        /\ getMetaDataErr' = NoMetaDataErr
        /\ conflictingError' = NoConflict
        /\ lastOp' = [op |-> "handleProjectChange", arg |-> value,
                      before |-> [status |-> FetchStatus,
                                  hadSelection |-> HasFullSelection]]
        /\ UNCHANGED <<error, submitting, subscriptionName, showConfirmModal,
                       selectedSubscription, requests, deletes, hook, closed>>

\* Mutant: setState leaves getMetaDataErr as it was
handleProjectChange_KeepsMetaDataErr(value) ==
    LET projects == ToArray(value)
    IN  /\ ~closed
        /\ Len(projects) > 0 => Len(fetches) < MaxFetches
        /\ filters' = [projects |-> projects, issue_types |-> <<>>,
                       events |-> <<>>, fields |-> <<>>]
        /\ jiraIssueMetadata' = clearIssueMetadata
        /\ fetches' = IF Len(projects) > 0 THEN StartFetch(fetches, projects) ELSE fetches
        /\ fetchingIssueMetadata' = (Len(projects) > 0)
        /\ getMetaDataErr' = getMetaDataErr
        /\ conflictingError' = NoConflict
        /\ lastOp' = [op |-> "handleProjectChange", arg |-> value,
                      before |-> [status |-> FetchStatus,
                                  hadSelection |-> HasFullSelection]]
        /\ UNCHANGED <<error, submitting, subscriptionName, showConfirmModal,
                       selectedSubscription, requests, deletes, hook, closed>>

handleProjectChange(value) ==
    LET projects == ToArray(value)
    IN  /\ ~closed
        /\ Len(projects) > 0 => Len(fetches) < MaxFetches
        /\ filters' = [projects |-> projects, issue_types |-> <<>>,
                       events |-> <<>>, fields |-> <<>>]
        /\ jiraIssueMetadata' = clearIssueMetadata
        /\ fetches' = IF Len(projects) > 0 THEN StartFetch(fetches, projects) ELSE fetches
        /\ fetchingIssueMetadata' = (Len(projects) > 0)
        /\ getMetaDataErr' = NoMetaDataErr
        /\ conflictingError' = NoConflict
        /\ lastOp' = [op |-> "handleProjectChange", arg |-> value,
                      before |-> [status |-> FetchStatus,
                                  hadSelection |-> HasFullSelection]]
        /\ UNCHANGED <<error, submitting, subscriptionName, showConfirmModal,
                       selectedSubscription, requests, deletes, hook, closed>>

\* The .then callback of fetchIssueMetadata(projectKeys) for the i-th
\* unresolved fetch.  A successful fetch has put the metadata of projectKeys
\* in the store before the callback runs; a failed one has put nothing.
fetchIssueMetadataResolved(i, outcome) ==
    LET projectKeys == fetches[i]
        metadata == IF outcome = "ok" THEN MetadataFor(projectKeys) ELSE jiraIssueMetadata
        filterFields == getCustomFieldFiltersForProjects(metadata, filters.projects)
    IN  /\ ~closed
        /\ fetches' = RemoveAt(fetches, i)
        /\ jiraIssueMetadata' = metadata
        /\ fetchingIssueMetadata' = FALSE
        /\ getMetaDataErr' = IF FetchFailed(outcome) THEN UnavailableMsg(projectKeys)
                             ELSE getMetaDataErr
        /\ error' = IF HasRemovedField(filters.fields, filterFields) THEN RemovedFieldError
                    ELSE error
        /\ lastOp' = [op |-> "fetchIssueMetadataResolved",
                      arg |-> [projectKeys |-> projectKeys, outcome |-> outcome],
                      before |-> NoValue]
        /\ UNCHANGED <<filters, submitting, subscriptionName, showConfirmModal,
                       conflictingError, selectedSubscription, requests, deletes, hook, closed>>

\* Mutant: the rejecting setState also stores the filters built from the
\* new selection
handleIssueChange_RejectStoresFilters(value) ==
    LET finalValue == OrEmpty(value)
        filterFields == getCustomFieldFiltersForProjects(jiraIssueMetadata, filters.projects)
        conflictingFields == IF IsLonger(finalValue, filters.issue_types)
                             THEN getConflictingFields(filterFields, finalValue, jiraIssueMetadata)
                             ELSE <<>>
        selectedConflictingFields == SelectedConflicting(conflictingFields, filters.fields)
    IN  /\ ~closed
        /\ IF Len(conflictingFields) > 0 /\ Len(selectedConflictingFields) > 0
           THEN /\ conflictingError' =
                       ConflictMsg(IssueTypeName(conflictingFields[1].issueTypes[1]),
                                   FieldNames(selectedConflictingFields))
                /\ filters' = [filters EXCEPT !.issue_types = finalValue]
           ELSE /\ filters' = [filters EXCEPT !.issue_types = finalValue]
                /\ conflictingError' = NoConflict
        /\ lastOp' = [op |-> "handleIssueChange", arg |-> value,
                      before |-> [expands |-> /\ Range(filters.issue_types) \subseteq Range(finalValue)
                                              /\ Range(filters.issue_types) # Range(finalValue)]]
        /\ UNCHANGED <<fetchingIssueMetadata, error, getMetaDataErr, submitting,
                       subscriptionName, showConfirmModal, jiraIssueMetadata,
                       selectedSubscription, fetches, requests, deletes, hook, closed>>

handleIssueChange(value) ==
    LET finalValue == OrEmpty(value)
        filterFields == getCustomFieldFiltersForProjects(jiraIssueMetadata, filters.projects)
        \* null is modelled as no conflicting field: both skip the branch
        conflictingFields == IF IsLonger(finalValue, filters.issue_types)
                             THEN getConflictingFields(filterFields, finalValue, jiraIssueMetadata)
                             ELSE <<>>
        selectedConflictingFields == SelectedConflicting(conflictingFields, filters.fields)
    IN  /\ ~closed
        /\ IF Len(conflictingFields) > 0 /\ Len(selectedConflictingFields) > 0
           THEN /\ conflictingError' =
                       ConflictMsg(IssueTypeName(conflictingFields[1].issueTypes[1]),
                                   FieldNames(selectedConflictingFields))
                /\ filters' = filters
           ELSE /\ filters' = [filters EXCEPT !.issue_types = finalValue]
                /\ conflictingError' = NoConflict
        /\ lastOp' = [op |-> "handleIssueChange", arg |-> value,
                      before |-> [expands |-> /\ Range(filters.issue_types) \subseteq Range(finalValue)
                                              /\ Range(filters.issue_types) # Range(finalValue)]]
        /\ UNCHANGED <<fetchingIssueMetadata, error, getMetaDataErr, submitting,
                       subscriptionName, showConfirmModal, jiraIssueMetadata,
                       selectedSubscription, fetches, requests, deletes, hook, closed>>

\* Mutant: the standing conflict message is left as it was
handleFilterFieldChange_KeepsConflict(fields) ==
    /\ ~closed
    /\ filters' = [filters EXCEPT !.fields = fields]
    /\ lastOp' = [op |-> "handleFilterFieldChange", arg |-> List(fields),
                  before |-> [hadConflict |-> conflictingError # NoConflict]]
    /\ UNCHANGED <<fetchingIssueMetadata, error, getMetaDataErr, submitting,
                   subscriptionName, showConfirmModal, conflictingError, jiraIssueMetadata,
                   selectedSubscription, fetches, requests, deletes, hook, closed>>

handleFilterFieldChange(fields) ==
    /\ ~closed
    /\ filters' = [filters EXCEPT !.fields = fields]
    /\ conflictingError' = NoConflict
    /\ lastOp' = [op |-> "handleFilterFieldChange", arg |-> List(fields),
                  before |-> [hadConflict |-> conflictingError # NoConflict]]
    /\ UNCHANGED <<fetchingIssueMetadata, error, getMetaDataErr, submitting,
                   subscriptionName, showConfirmModal, jiraIssueMetadata,
                   selectedSubscription, fetches, requests, deletes, hook, closed>>

handleSettingChange(value) ==
    /\ ~closed
    /\ filters' = [filters EXCEPT !.events = ToArray(value)]
    /\ conflictingError' = NoConflict
    /\ lastOp' = [op |-> "handleSettingChange", arg |-> value, before |-> NoValue]
    /\ UNCHANGED <<fetchingIssueMetadata, error, getMetaDataErr, submitting,
                   subscriptionName, showConfirmModal, jiraIssueMetadata,
                   selectedSubscription, fetches, requests, deletes, hook, closed>>

handleNameChange(value) ==
    /\ ~closed
    /\ subscriptionName' = value
    /\ lastOp' = [op |-> "handleNameChange", arg |-> Single(value), before |-> NoValue]
    /\ UNCHANGED <<filters, fetchingIssueMetadata, error, getMetaDataErr, submitting,
                   showConfirmModal, conflictingError, jiraIssueMetadata,
                   selectedSubscription, fetches, requests, deletes, hook, closed>>

\* Mutant: the subscription never carries an id
SubscriptionToSend_NoId ==
    LET filterFields == getCustomFieldFiltersForProjects(jiraIssueMetadata, filters.projects)
        configuredFields == ConfiguredFields(filters.fields, filterFields)
    IN  [channel_id |-> ChannelId,
         filters |-> [filters EXCEPT !.fields = configuredFields],
         name |-> subscriptionName,
         id |-> Null]

\* The subscription handleCreate hands to editChannelSubscription or
\* createChannelSubscription
SubscriptionToSend ==
    LET filterFields == getCustomFieldFiltersForProjects(jiraIssueMetadata, filters.projects)
        configuredFields == ConfiguredFields(filters.fields, filterFields)
    IN  [channel_id |-> ChannelId,
         filters |-> [filters EXCEPT !.fields = configuredFields],
         name |-> subscriptionName,
         id |-> selectedSubscription.id]

\* Mutant: the request is sent without asking the validator
handleCreate_NoValidation ==
    /\ ~closed
    /\ requests < MaxRequests
    /\ submitting' = TRUE
    /\ error' = Null
    /\ requests' = requests + 1
    /\ lastOp' = [op |-> "handleCreate",
                  arg |-> [request |-> IF selectedSubscription.id # Null
                                       THEN "edit" ELSE "create",
                           subscription |-> SubscriptionToSend],
                  before |-> [error |-> error]]
    /\ UNCHANGED <<filters, fetchingIssueMetadata, getMetaDataErr, subscriptionName,
                   showConfirmModal, conflictingError, jiraIssueMetadata,
                   selectedSubscription, fetches, closed, deletes, hook>>

handleCreate ==
    /\ ~closed
    /\ IF ~Validate
       THEN \* `if (!this.validator.validate()) return;`
            /\ lastOp' = [op |-> "handleCreate", arg |-> [request |-> "none"],
                          before |-> [error |-> error]]
            /\ UNCHANGED <<submitting, error, requests>>
       ELSE /\ requests < MaxRequests
            /\ submitting' = TRUE
            /\ error' = Null
            /\ requests' = requests + 1
            /\ lastOp' = [op |-> "handleCreate",
                          arg |-> [request |-> IF selectedSubscription.id # Null
                                               THEN "edit" ELSE "create",
                                   subscription |-> SubscriptionToSend],
                          before |-> [error |-> error]]
    /\ UNCHANGED <<filters, fetchingIssueMetadata, getMetaDataErr, subscriptionName,
                   showConfirmModal, conflictingError, jiraIssueMetadata,
                   selectedSubscription, fetches, closed, deletes, hook>>

\* Mutant: the error branch leaves submitting as it was
handleCreateResolved_KeepsSubmitting(res) ==
    /\ ~closed
    /\ requests > 0
    /\ requests' = requests - 1
    /\ IF ~res.ok
       THEN /\ error' = res.message
            /\ UNCHANGED <<submitting, closed>>
       ELSE /\ closed' = TRUE
            /\ UNCHANGED <<error, submitting>>
    /\ lastOp' = [op |-> "handleCreateResolved", arg |-> res, before |-> NoValue]
    /\ UNCHANGED <<filters, fetchingIssueMetadata, getMetaDataErr, subscriptionName,
                   showConfirmModal, conflictingError, jiraIssueMetadata,
                   selectedSubscription, fetches, deletes, hook>>

\* The .then callback of editChannelSubscription / createChannelSubscription
handleCreateResolved(res) ==
    /\ ~closed
    /\ requests > 0
    /\ requests' = requests - 1
    /\ IF ~res.ok
       THEN /\ error' = res.message
            /\ submitting' = FALSE
            /\ closed' = closed
       ELSE \* this.handleClose(e)
            /\ closed' = TRUE
            /\ UNCHANGED <<error, submitting>>
    /\ lastOp' = [op |-> "handleCreateResolved", arg |-> res, before |-> NoValue]
    /\ UNCHANGED <<filters, fetchingIssueMetadata, getMetaDataErr, subscriptionName,
                   showConfirmModal, conflictingError, jiraIssueMetadata,
                   selectedSubscription, fetches, deletes, hook>>

\* deleteChannelSubscription, up to the call of the collaborator: one more
\* unresolved delete when a subscription is selected
deleteChannelSubscription(pending) ==
    IF selectedSubscription.id # Null THEN pending + 1 ELSE pending

\* The Delete button; it is disabled without a selected subscription
handleDeleteChannelSubscription ==
    /\ ~closed
    /\ selectedSubscription.id # Null
    /\ showConfirmModal' = TRUE
    /\ lastOp' = [op |-> "handleDeleteChannelSubscription", arg |-> NoValue, before |-> NoValue]
    /\ UNCHANGED <<filters, fetchingIssueMetadata, error, getMetaDataErr, submitting,
                   subscriptionName, conflictingError, jiraIssueMetadata,
                   selectedSubscription, fetches, requests, deletes, closed, hook>>

\* Mutant: cancelling runs the delete as confirming does
handleCancelDelete_Deletes ==
    /\ ~closed
    /\ showConfirmModal
    /\ deletes < MaxRequests
    /\ showConfirmModal' = FALSE
    /\ deletes' = deleteChannelSubscription(deletes)
    /\ lastOp' = [op |-> "handleCancelDelete", arg |-> NoValue, before |-> NoValue]
    /\ UNCHANGED <<filters, fetchingIssueMetadata, error, getMetaDataErr, submitting,
                   subscriptionName, conflictingError, jiraIssueMetadata,
                   selectedSubscription, fetches, requests, closed, hook>>

\* The confirm dialog's Cancel; the dialog is there while showConfirmModal
handleCancelDelete ==
    /\ ~closed
    /\ showConfirmModal
    /\ showConfirmModal' = FALSE
    /\ lastOp' = [op |-> "handleCancelDelete", arg |-> NoValue, before |-> NoValue]
    /\ UNCHANGED <<filters, fetchingIssueMetadata, error, getMetaDataErr, submitting,
                   subscriptionName, conflictingError, jiraIssueMetadata,
                   selectedSubscription, fetches, requests, deletes, closed, hook>>

\* The confirm dialog's Delete
handleConfirmDelete ==
    /\ ~closed
    /\ showConfirmModal
    /\ deletes < MaxRequests
    /\ showConfirmModal' = FALSE
    /\ deletes' = deleteChannelSubscription(deletes)
    /\ lastOp' = [op |-> "handleConfirmDelete", arg |-> NoValue, before |-> NoValue]
    /\ UNCHANGED <<filters, fetchingIssueMetadata, error, getMetaDataErr, submitting,
                   subscriptionName, conflictingError, jiraIssueMetadata,
                   selectedSubscription, fetches, requests, closed, hook>>

\* The .then callback of props.deleteChannelSubscription
deleteChannelSubscriptionResolved(res) ==
    /\ ~closed
    /\ deletes > 0
    /\ deletes' = deletes - 1
    /\ IF ~res.ok
       THEN /\ error' = res.message
            /\ closed' = closed
       ELSE \* this.handleClose()
            /\ closed' = TRUE
            /\ error' = error
    /\ lastOp' = [op |-> "deleteChannelSubscriptionResolved", arg |-> res, before |-> NoValue]
    /\ UNCHANGED <<filters, fetchingIssueMetadata, getMetaDataErr, submitting,
                   subscriptionName, showConfirmModal, conflictingError, jiraIssueMetadata,
                   selectedSubscription, fetches, requests, hook>>

handleClose ==
    /\ ~closed
    /\ closed' = TRUE
    /\ lastOp' = [op |-> "handleClose", arg |-> NoValue, before |-> NoValue]
    /\ UNCHANGED <<filters, fetchingIssueMetadata, error, getMetaDataErr, submitting,
                   subscriptionName, showConfirmModal, conflictingError, jiraIssueMetadata,
                   selectedSubscription, fetches, requests, deletes, hook>>

NameArgs == {"", "weekly"}

\* The filter engine: project, issue types, custom fields and events, with
\* the metadata fetch
Next ==
    \/ \E value \in ProjectArgs : handleProjectChange(value)
    \/ \E i \in DOMAIN fetches, outcome \in FetchOutcomes : fetchIssueMetadataResolved(i, outcome)
    \/ \E value \in IssueArgs : handleIssueChange(value)
    \/ \E fields \in FieldArgs : handleFilterFieldChange(fields)
    \/ \E value \in EventArgs : handleSettingChange(value)

Spec == Init /\ [][Next]_vars

\* The submit path: name, project, custom fields, the metadata fetch, the
\* create/edit request and the closing of the modal
SubmitNext ==
    \/ \E value \in ProjectArgs : handleProjectChange(value)
    \/ \E i \in DOMAIN fetches, outcome \in FetchOutcomes : fetchIssueMetadataResolved(i, outcome)
    \/ \E fields \in FieldArgs : handleFilterFieldChange(fields)
    \/ \E value \in NameArgs : handleNameChange(value)
    \/ handleCreate
    \/ \E res \in PersistResponses : handleCreateResolved(res)
    \/ handleClose

SubmitSpec == Init /\ [][SubmitNext]_vars

\* The persistence path: name, project, the create/edit request, the delete
\* with its confirmation, and the closing of the modal
PersistNext ==
    \/ \E value \in ProjectArgs : handleProjectChange(value)
    \/ \E i \in DOMAIN fetches, outcome \in FetchOutcomes : fetchIssueMetadataResolved(i, outcome)
    \/ \E value \in NameArgs : handleNameChange(value)
    \/ handleCreate
    \/ \E res \in PersistResponses : handleCreateResolved(res)
    \/ handleDeleteChannelSubscription
    \/ handleCancelDelete
    \/ handleConfirmDelete
    \/ \E res \in PersistResponses : deleteChannelSubscriptionResolved(res)
    \/ handleClose

PersistSpec == Init /\ [][PersistNext]_vars

\* ------------------------------------------------------------------ hooks.js
\* A message is the string's sequence of characters, or NoValue for null

Space == <<" ">>
JiraCreate == <<"/", "j", "i", "r", "a", " ", "c", "r", "e", "a", "t", "e">>
JiraConnect == <<"/", "j", "i", "r", "a", " ", "c", "o", "n", "n", "e", "c", "t">>
JiraSubscribe == <<"/", "j", "i", "r", "a", " ", "s", "u", "b", "s", "c", "r", "i", "b", "e">>

\* The argument of message.slice in the create branch
CreateSliceStart == 12

\* The messages the hook is called with: the commands, the commands with
\* arguments, texts that only begin like a command, and other texts
HookTexts ==
    {JiraCreate, JiraConnect, JiraSubscribe,
     JiraCreate \o Space \o <<"x">>, JiraCreate \o Space \o <<" ", "x", " ">>,
     JiraConnect \o Space \o <<"x">>, JiraSubscribe \o Space \o <<"x">>,
     JiraCreate \o <<"d">>, JiraConnect \o <<"e", "d">>, JiraSubscribe \o <<"r">>,
     <<"/", "j", "i", "r", "a">>, <<"h", "i">>, <<>>}

HookMessages == {NoValue} \cup {Single(t) : t \in HookTexts}

ChannelIds == {"ch1", "ch2"}
HookContextArgs == [channel_id : ChannelIds]

\* What the selectors and the user agent helpers answer
HookStores == [installed : BOOLEAN, connected : BOOLEAN,
               instanceType : {"server", "cloud"},
               desktopApp : BOOLEAN, minDesktopVersion : BOOLEAN]

\* String.prototype.startsWith
StartsWith(text, prefix) ==
    /\ Len(text) >= Len(prefix)
    /\ SubSeq(text, 1, Len(prefix)) = prefix

\* String.prototype.slice(start) for a start that is not negative
Slice(text, start) == SubSeq(text, start + 1, Len(text))

RECURSIVE TrimStart(_)
TrimStart(text) == IF text # <<>> /\ Head(text) = " " THEN TrimStart(Tail(text)) ELSE text

RECURSIVE TrimEnd(_)
TrimEnd(text) == IF text # <<>> /\ text[Len(text)] = " "
                 THEN TrimEnd(SubSeq(text, 1, Len(text) - 1))
                 ELSE text

\* String.prototype.trim, for texts whose only white space is the space
Trim(text) == TrimEnd(TrimStart(text))

\* `message && (message.startsWith(prefix) || message === command)`
Matches(message, prefix, command) ==
    /\ message.kind # "none"
    /\ message.value # <<>>
    /\ (StartsWith(message.value, prefix) \/ message.value = command)

\* The texts of the ephemeral posts
NoInstanceMsg == "There is no Jira instance installed."
NotConnectedMsg == "Your Mattermost account is not connected to Jira."
AlreadyConnectedMsg == "You already have a Jira account linked to your Mattermost account."
DesktopAppMsg == "The current version of your desktop app does not support connecting to Jira directly."

sendEphemeralPost(text) == [type |-> "sendEphemeralPost", text |-> text]
openCreateModalWithoutPost(description, channelId) ==
    [type |-> "openCreateModalWithoutPost", description |-> description, channelId |-> channelId]
openChannelSettings(channelId) == [type |-> "openChannelSettings", channelId |-> channelId]
WindowOpenConnect == [type |-> "window.open", url |-> "/plugins/PluginId/user/connect"]

\* Promise.resolve({}) and Promise.resolve({message, args})
EmptyResult == [kind |-> "empty"]
Unchanged(message, contextArgs) == [kind |-> "unchanged", message |-> message, args |-> contextArgs]

\* What one call does: what it returns and what it dispatches or opens
Swallowed(effects) == [result |-> EmptyResult, effects |-> effects]

\* Mutant: the create branch does not ask whether the user is connected
HookOutcome_CreateWithoutConnection(store, message, contextArgs) ==
    IF Matches(message, JiraCreate \o Space, JiraCreate)
    THEN IF ~store.installed THEN Swallowed(<<sendEphemeralPost(NoInstanceMsg)>>)
         ELSE Swallowed(<<openCreateModalWithoutPost(
                              Trim(Slice(message.value, CreateSliceStart)),
                              contextArgs.channel_id)>>)
    ELSE IF Matches(message, JiraConnect, JiraConnect)
    THEN IF ~store.installed THEN Swallowed(<<sendEphemeralPost(NoInstanceMsg)>>)
         ELSE IF store.connected THEN Swallowed(<<sendEphemeralPost(AlreadyConnectedMsg)>>)
         ELSE IF store.instanceType = "server" /\ store.desktopApp /\ ~store.minDesktopVersion
         THEN Swallowed(<<sendEphemeralPost(DesktopAppMsg)>>)
         ELSE Swallowed(<<WindowOpenConnect>>)
    ELSE IF Matches(message, JiraSubscribe \o Space, JiraSubscribe)
    THEN IF ~store.installed THEN Swallowed(<<sendEphemeralPost(NoInstanceMsg)>>)
         ELSE IF ~store.connected THEN Swallowed(<<sendEphemeralPost(NotConnectedMsg)>>)
         ELSE Swallowed(<<openChannelSettings(contextArgs.channel_id)>>)
    ELSE [result |-> Unchanged(message, contextArgs), effects |-> <<>>]

\* The body of slashCommandWillBePostedHook
HookOutcome(store, message, contextArgs) ==
    IF Matches(message, JiraCreate \o Space, JiraCreate)
    THEN IF ~store.installed THEN Swallowed(<<sendEphemeralPost(NoInstanceMsg)>>)
         ELSE IF ~store.connected THEN Swallowed(<<sendEphemeralPost(NotConnectedMsg)>>)
         ELSE Swallowed(<<openCreateModalWithoutPost(
                              Trim(Slice(message.value, CreateSliceStart)),
                              contextArgs.channel_id)>>)
    ELSE IF Matches(message, JiraConnect, JiraConnect)
    THEN IF ~store.installed THEN Swallowed(<<sendEphemeralPost(NoInstanceMsg)>>)
         ELSE IF store.connected THEN Swallowed(<<sendEphemeralPost(AlreadyConnectedMsg)>>)
         ELSE IF store.instanceType = "server" /\ store.desktopApp /\ ~store.minDesktopVersion
         THEN Swallowed(<<sendEphemeralPost(DesktopAppMsg)>>)
         ELSE Swallowed(<<WindowOpenConnect>>)
    ELSE IF Matches(message, JiraSubscribe \o Space, JiraSubscribe)
    THEN IF ~store.installed THEN Swallowed(<<sendEphemeralPost(NoInstanceMsg)>>)
         ELSE IF ~store.connected THEN Swallowed(<<sendEphemeralPost(NotConnectedMsg)>>)
         ELSE Swallowed(<<openChannelSettings(contextArgs.channel_id)>>)
    ELSE [result |-> Unchanged(message, contextArgs), effects |-> <<>>]

\* The hooks object with its store, before any call; no modal is mounted
HooksInit ==
    /\ filters = EmptyFilters
    /\ fetchingIssueMetadata = FALSE
    /\ error = Null
    /\ getMetaDataErr = NoMetaDataErr
    /\ submitting = FALSE
    /\ subscriptionName = Null
    /\ showConfirmModal = FALSE
    /\ conflictingError = NoConflict
    /\ jiraIssueMetadata = NoMetadata
    /\ selectedSubscription = NoSubscription
    /\ fetches = <<>>
    /\ requests = 0
    /\ deletes = 0
    /\ closed = TRUE
    /\ \E store \in HookStores :
          hook = [phase |-> "ready", store |-> store, call |-> NoValue,
                  result |-> NoValue, effects |-> <<>>]
    /\ lastOp = [op |-> "constructor", arg |-> NoValue, before |-> NoValue]

slashCommandWillBePostedHook(message, contextArgs) ==
    LET outcome == HookOutcome(hook.store, message, contextArgs)
    IN  /\ hook.phase # "unused"
        /\ hook' = [hook EXCEPT !.phase = "returned",
                                !.call = [message |-> message, args |-> contextArgs],
                                !.result = outcome.result,
                                !.effects = outcome.effects]
        /\ lastOp' = [op |-> "slashCommandWillBePostedHook", arg |-> NoValue, before |-> NoValue]
        /\ UNCHANGED <<filters, fetchingIssueMetadata, error, getMetaDataErr, submitting,
                       subscriptionName, showConfirmModal, conflictingError, jiraIssueMetadata,
                       selectedSubscription, fetches, requests, deletes, closed>>

HooksNext ==
    \E message \in HookMessages, contextArgs \in HookContextArgs :
        slashCommandWillBePostedHook(message, contextArgs)

HooksSpec == HooksInit /\ [][HooksNext]_vars

\* ================================================================= claims
\* The filter fields of the current metadata schema for the selected project
CurrentSchemaFields == getCustomFieldFiltersForProjects(jiraIssueMetadata, filters.projects)

CurrentSchemaKeys == {CurrentSchemaFields[i].key : i \in DOMAIN CurrentSchemaFields}

\* new holds every issue type of old and at least one more
StrictlyExpands(old, new) == Range(old) \subseteq Range(new) /\ Range(old) # Range(new)

\* The array a handler argument stands for
ArgList(arg) == CASE arg.kind = "none" -> <<>>
                  [] arg.kind = "single" -> <<arg.value>>
                  [] arg.kind = "list" -> arg.value

\* The selected fields of the current schema that some issue type of types
\* excludes
SelectedExcludedBy(types) ==
    {f \in Range(CurrentSchemaFields) :
        /\ f.key \in Range(filters.fields)
        /\ \E t \in types : t \notin f.issueTypes}

\* The fields of the current schema that are not selected and that some
\* issue type of types excludes
UnselectedExcludedBy(types) ==
    {f \in Range(CurrentSchemaFields) :
        /\ f.key \notin Range(filters.fields)
        /\ \E t \in types : t \notin f.issueTypes}

\* The form shows the issue type and field controls (render, line 323)
FormShown == /\ ~fetchingIssueMetadata
             /\ Len(filters.projects) > 0
             /\ getMetaDataErr = NoMetaDataErr
             /\ jiraIssueMetadata.loaded

\* C1: the response of a fetch whose project is no longer the selected one
\* changes nothing: it leaves the fetching flag on while a fetch for the
\* selected project is unresolved, and leaves getMetaDataErr and error as
\* they were.
C1_StaleResponseChangesNothing ==
    [][(/\ lastOp'.op = "fetchIssueMetadataResolved"
        /\ lastOp'.arg.projectKeys # filters.projects)
       => /\ (\E j \in DOMAIN fetches' : fetches'[j] = filters.projects)
                => fetchingIssueMetadata' = fetchingIssueMetadata
          /\ getMetaDataErr' = getMetaDataErr
          /\ error' = error]_vars

\* C2: a new issue-type selection that expands the previous one with a type
\* that excludes a selected field is rejected (filters unchanged), and the
\* conflict message names every selected field that an added type excludes.
C2_ExpansionExcludingSelectedFieldRejected ==
    [][(/\ lastOp'.op = "handleIssueChange"
        /\ StrictlyExpands(filters.issue_types, ArgList(lastOp'.arg))
        /\ SelectedExcludedBy(Range(ArgList(lastOp'.arg)) \ Range(filters.issue_types)) # {})
       => /\ filters' = filters
          /\ conflictingError'.kind = "conflict"
          /\ \A f \in SelectedExcludedBy(Range(ArgList(lastOp'.arg)) \ Range(filters.issue_types)) :
                f.name \in Range(conflictingError'.fields)]_vars

\* Two selected fields conflict with an expansion, and the message names both
C2_Witness ==
    /\ lastOp.op = "handleIssueChange"
    /\ conflictingError.kind = "conflict"
    /\ StrictlyExpands(filters.issue_types, ArgList(lastOp.arg))
    /\ Cardinality(SelectedExcludedBy(Range(ArgList(lastOp.arg)) \ Range(filters.issue_types))) = 2
    /\ Len(conflictingError.fields) = 2

\* C3: when handleIssueChange rejects a change (it leaves a conflict
\* message), issue_types, projects, events and fields keep their values, and
\* so does every other part of the state but the conflict message.
C3_RejectionLeavesFiltersUnchanged ==
    [][(lastOp'.op = "handleIssueChange" /\ conflictingError' # NoConflict)
       => /\ filters' = filters
          /\ UNCHANGED <<fetchingIssueMetadata, error, getMetaDataErr, submitting,
                         subscriptionName, showConfirmModal, jiraIssueMetadata>>]_vars

\* A rejected change in a state where events, issue types and fields are
\* all selected
C3_Witness ==
    /\ lastOp.op = "handleIssueChange"
    /\ conflictingError # NoConflict
    /\ HasFullSelection
    /\ ArgList(lastOp.arg) # filters.issue_types

\* C4: an expansion that conflicts only with fields that are not selected is
\* accepted: issue_types becomes the new selection and the conflict message
\* is null.
C4_ConflictWithUnselectedFieldsAccepted ==
    [][(/\ lastOp'.op = "handleIssueChange"
        /\ StrictlyExpands(filters.issue_types, ArgList(lastOp'.arg))
        /\ UnselectedExcludedBy(Range(ArgList(lastOp'.arg))) # {}
        /\ SelectedExcludedBy(Range(ArgList(lastOp'.arg))) = {})
       => /\ filters' = [filters EXCEPT !.issue_types = ArgList(lastOp'.arg)]
          /\ conflictingError' = NoConflict]_vars

\* An accepted expansion with a selected field of the schema, while another
\* field of the schema excludes a type of the new selection
C4_Witness ==
    /\ lastOp.op = "handleIssueChange"
    /\ lastOp.before.expands
    /\ conflictingError = NoConflict
    /\ filters.issue_types = ArgList(lastOp.arg)
    /\ Range(filters.fields) \cap CurrentSchemaKeys # {}
    /\ UnselectedExcludedBy(Range(filters.issue_types)) # {}
    /\ SelectedExcludedBy(Range(filters.issue_types)) = {}

\* C5: in every state reached from an empty FilterSet, every selected
\* custom field is applicable to all selected issue types.  Stated for the
\* states in which the form offers the issue-type and field controls and
\* for the selected fields the current schema holds.
C5_SelectedFieldsApplicableToAllIssueTypes ==
    (selectedSubscription = NoSubscription /\ FormShown)
    => \A i \in DOMAIN CurrentSchemaFields :
          CurrentSchemaFields[i].key \in Range(filters.fields)
          => Range(filters.issue_types) \subseteq CurrentSchemaFields[i].issueTypes

\* C6: after handleProjectChange, events, issue_types and fields are empty
\* and projects is the new selection (empty when the project was cleared).
C6_ProjectChangeClearsSelection ==
    [][lastOp'.op = "handleProjectChange"
       => filters' = [projects |-> ArgList(lastOp'.arg), issue_types |-> <<>>,
                      events |-> <<>>, fields |-> <<>>]]_vars

\* A project change from a state with events, issue types and fields selected
C6_Witness ==
    /\ lastOp.op = "handleProjectChange"
    /\ lastOp.before.hadSelection
    /\ lastOp.arg = Single("WEB")
    /\ filters = [projects |-> <<"WEB">>, issue_types |-> <<>>, events |-> <<>>, fields |-> <<>>]

\* C7: handleProjectChange with a project sets the fetching flag, clears
\* getMetaDataErr and starts exactly one fetch, for that project; with no
\* project it clears the fetching flag and getMetaDataErr and starts no fetch.
C7_ProjectChangeResetsFetchStatus ==
    [][lastOp'.op = "handleProjectChange"
       => IF Len(ArgList(lastOp'.arg)) > 0
          THEN /\ fetchingIssueMetadata'
               /\ getMetaDataErr' = NoMetaDataErr
               /\ fetches' = Append(fetches, ArgList(lastOp'.arg))
          ELSE /\ ~fetchingIssueMetadata'
               /\ getMetaDataErr' = NoMetaDataErr
               /\ fetches' = fetches]_vars

\* A project selected while the form showed a metadata error
C7_Witness ==
    /\ lastOp.op = "handleProjectChange"
    /\ lastOp.before.status = "error"
    /\ Len(filters.projects) > 0
    /\ fetchingIssueMetadata
    /\ getMetaDataErr = NoMetaDataErr
    /\ Len(fetches) > 0
    /\ fetches[Len(fetches)] = filters.projects

\* The fields of the subscription the last handleCreate sent
SentFields == lastOp.arg.subscription.filters.fields

\* C8: the fields handleCreate sends are exactly the selected fields whose
\* key the current metadata schema holds, in their order.
C8_SentFieldsAreSelectedFieldsOfSchema ==
    (lastOp.op = "handleCreate" /\ lastOp.arg.request # "none")
    => SentFields = SelectSeq(filters.fields, LAMBDA k : k \in CurrentSchemaKeys)

\* A submit that drops one selected field and keeps another
C8_Witness ==
    /\ lastOp.op = "handleCreate"
    /\ lastOp.arg.request # "none"
    /\ Len(SentFields) > 0
    /\ Len(SentFields) < Len(filters.fields)

\* C9: the removed-field warning is showing when handleCreate runs exactly
\* when handleCreate drops a selected field.
C9_WarnedExactlyWhenFieldDropped ==
    (lastOp.op = "handleCreate" /\ lastOp.arg.request # "none")
    => ((lastOp.before.error = RemovedFieldError) <=> (Len(SentFields) < Len(filters.fields)))

\* C10: a response with a top-level error and one whose data carries an
\* error both set the unavailable message for the fetched project and clear
\* the fetching flag; a response with neither leaves getMetaDataErr as it was.
C10_BothErrorShapesSetTheSameMessage ==
    [][lastOp'.op = "fetchIssueMetadataResolved"
       => /\ ~fetchingIssueMetadata'
          /\ IF lastOp'.arg.outcome \in {"error", "data_error"}
             THEN getMetaDataErr' = [kind |-> "unavailable",
                                     project |-> lastOp'.arg.projectKeys[1]]
             ELSE getMetaDataErr' = getMetaDataErr]_vars

\* A response whose data carries an error has set the message
C10_Witness ==
    /\ lastOp.op = "fetchIssueMetadataResolved"
    /\ lastOp.arg.outcome = "data_error"
    /\ getMetaDataErr = [kind |-> "unavailable", project |-> lastOp.arg.projectKeys[1]]
    /\ ~fetchingIssueMetadata

\* A create, edit or delete request has just resolved with an error
PersistFailed(op) ==
    /\ op.op \in {"handleCreateResolved", "deleteChannelSubscriptionResolved"}
    /\ ~op.arg.ok

\* The modal closes only by handleClose or by a request resolving without
\* an error
ClosedOnlyBySuccessOrCancel ==
    (closed' /\ ~closed)
    => \/ lastOp'.op = "handleClose"
       \/ /\ lastOp'.op \in {"handleCreateResolved", "deleteChannelSubscriptionResolved"}
          /\ lastOp'.arg.ok

\* C11 as stated: a create, edit or delete request resolving with an error
\* sets error to the collaborator's message, leaves the modal open, leaves
\* submitting false and the filters and the name unchanged; the modal closes
\* only by a request resolving without an error or by cancel.
C11_ErrorLeavesFormOpenAndNotSubmitting ==
    [][/\ PersistFailed(lastOp')
          => /\ error' = lastOp'.arg.message
             /\ ~closed'
             /\ ~submitting'
             /\ filters' = filters
             /\ subscriptionName' = subscriptionName
       /\ ClosedOnlyBySuccessOrCancel]_vars

\* C11 amended: as above, but submitting is false after a failed create or
\* edit, and is left as it was by a failed delete.
C11_ErrorLeavesFormOpen ==
    [][/\ PersistFailed(lastOp')
          => /\ error' = lastOp'.arg.message
             /\ ~closed'
             /\ IF lastOp'.op = "handleCreateResolved"
                THEN ~submitting'
                ELSE submitting' = submitting
             /\ filters' = filters
             /\ subscriptionName' = subscriptionName
       /\ ClosedOnlyBySuccessOrCancel]_vars

\* A delete has failed while a create or edit is outstanding: the message is
\* showing, the modal is open and submitting is still true
C11_Witness ==
    /\ lastOp.op = "deleteChannelSubscriptionResolved"
    /\ ~lastOp.arg.ok
    /\ error = lastOp.arg.message
    /\ submitting
    /\ requests > 0
    /\ ~closed

C13_MessageNamesTypeExcludingListedField ==
    (lastOp.op = "handleIssueChange" /\ conflictingError.kind = "conflict")
    => LET new == Range(ArgList(lastOp.arg))
       IN  /\ \E t \in new :
                /\ IssueTypeName(t) = conflictingError.issueType
                /\ \E f \in SelectedExcludedBy({t}) : f.name \in Range(conflictingError.fields)
           /\ Range(conflictingError.fields) = {f.name : f \in SelectedExcludedBy(new)}

\* C14: handleFilterFieldChange replaces the selected fields by exactly the
\* given list, leaves projects, issue types and events unchanged, and leaves
\* the conflict message null whatever it was before.
C14_FieldChangeReplacesFieldsAndClearsConflict ==
    [][lastOp'.op = "handleFilterFieldChange"
       => /\ filters'.fields = lastOp'.arg.value
          /\ filters'.projects = filters.projects
          /\ filters'.issue_types = filters.issue_types
          /\ filters'.events = filters.events
          /\ conflictingError' = NoConflict]_vars

\* A field change made while a conflict message was standing
C14_Witness ==
    /\ lastOp.op = "handleFilterFieldChange"
    /\ lastOp.before.hadConflict
    /\ filters.fields = lastOp.arg.value
    /\ conflictingError = NoConflict

\* C15: handleSettingChange('events') replaces the events by exactly the
\* given value (the empty list for no value, a one-element list for a value
\* that is not a list) and leaves projects, issue types and fields unchanged.
C15_SettingChangeReplacesEvents ==
    [][lastOp'.op = "handleSettingChange"
       => /\ filters'.events = ArgList(lastOp'.arg)
          /\ filters'.projects = filters.projects
          /\ filters'.issue_types = filters.issue_types
          /\ filters'.fields = filters.fields]_vars

\* A single value that is not a list has become a one-element list
C15_Witness ==
    /\ lastOp.op = "handleSettingChange"
    /\ lastOp.arg.kind = "single"
    /\ filters.events = <<lastOp.arg.value>>
    /\ Len(filters.projects) > 0

\* C16: an issue type change whose new selection adds no type (it removes
\* types or clears the selection) is accepted and clears the conflict
\* message; every change that adds a type not selected before is treated as
\* an expansion, so it is rejected with a conflict message when a type of the
\* new selection excludes a selected field.
C16_EveryAddedTypeIsCheckedForConflicts ==
    [][lastOp'.op = "handleIssueChange"
       => LET old == Range(filters.issue_types)
              new == Range(ArgList(lastOp'.arg))
          IN  /\ new \subseteq old
                 => /\ filters' = [filters EXCEPT !.issue_types = ArgList(lastOp'.arg)]
                    /\ conflictingError' = NoConflict
              /\ (new \ old # {} /\ SelectedExcludedBy(new) # {})
                 => /\ filters' = filters
                    /\ conflictingError'.kind = "conflict"]_vars

\* C17: a submit that passes validation sends exactly one persistence
\* request: an edit carrying the selected subscription's id when the modal
\* was opened on an existing subscription, a create carrying no id otherwise;
\* the payload holds the channel id, the current name and the filters with
\* the selected fields that the schema no longer has removed.
C17_ValidSubmitSendsOneRequest ==
    [][(lastOp'.op = "handleCreate" /\ Validate)
       => /\ requests' = requests + 1
          /\ lastOp'.arg.request = IF selectedSubscription.id # Null THEN "edit" ELSE "create"
          /\ lastOp'.arg.subscription.id = selectedSubscription.id
          /\ lastOp'.arg.subscription.channel_id = ChannelId
          /\ lastOp'.arg.subscription.name = subscriptionName
          /\ lastOp'.arg.subscription.filters =
                [filters EXCEPT !.fields = SelectSeq(filters.fields,
                                                     LAMBDA k : k \in CurrentSchemaKeys)]]_vars

\* An edit request carrying the id of the subscription the modal was opened on
C17_Witness ==
    /\ lastOp.op = "handleCreate"
    /\ lastOp.arg.request = "edit"
    /\ lastOp.arg.subscription.id = StoredSubscription.id
    /\ lastOp.arg.subscription.name = subscriptionName
    /\ requests = 1

\* C18: at most one create or edit request is outstanding at any time.
C18_AtMostOneRequestOutstanding == requests <= 1

\* C19: a delete request is sent only by confirming a delete that was
\* requested before (handleDeleteChannelSubscription showed the confirm
\* dialog, then handleConfirmDelete), and only while an existing
\* subscription is selected; cancelling hides the dialog and sends nothing.
C19_DeleteOnlyAfterConfirmation ==
    [][/\ deletes' > deletes
          => /\ lastOp'.op = "handleConfirmDelete"
             /\ showConfirmModal
             /\ selectedSubscription.id # Null
             /\ deletes' = deletes + 1
       /\ (showConfirmModal' /\ ~showConfirmModal)
          => lastOp'.op = "handleDeleteChannelSubscription"
       /\ lastOp'.op = "handleCancelDelete"
          => /\ ~showConfirmModal'
             /\ deletes' = deletes]_vars

\* A confirmed delete has sent its request and hidden the dialog
C19_Witness ==
    /\ lastOp.op = "handleConfirmDelete"
    /\ deletes = 1
    /\ ~showConfirmModal
    /\ selectedSubscription.id # Null

\* The message is '/jira create', '/jira connect' or '/jira subscribe', alone
\* or followed by a space and arguments
IsJiraCommand(message) ==
    /\ message.kind # "none"
    /\ \E command \in {JiraCreate, JiraConnect, JiraSubscribe} :
          \/ message.value = command
          \/ StartsWith(message.value, command \o Space)

\* C20: the hook returns the message and the context args unchanged for
\* every message that is not one of the three commands, and an empty result
\* for every message that is one of them.
C20_OnlyTheThreeCommandsAreSwallowed ==
    hook.phase = "returned"
    => IF IsJiraCommand(hook.call.message)
       THEN hook.result = EmptyResult
       ELSE hook.result = Unchanged(hook.call.message, hook.call.args)

\* The message is this command, alone or followed by a space and arguments
IsCommand(message, command) ==
    /\ message.kind # "none"
    /\ \/ message.value = command
       \/ StartsWith(message.value, command \o Space)

\* What the last call dispatched or opened, by type
EffectsOfType(types) == SelectSeq(hook.effects, LAMBDA e : e.type \in types)

ModalTypes == {"openCreateModalWithoutPost", "openChannelSettings"}

\* C21: for '/jira create' and '/jira subscribe' a modal is opened only when
\* an instance is installed and the user is connected; otherwise the call
\* dispatches exactly one ephemeral post and opens no modal, and the post is
\* the no-instance message when no instance is installed, the not-connected
\* message otherwise. For '/jira connect' the connect window is opened only
\* when an instance is installed and the user is not connected.
C21_ModalAndConnectWindowOnlyWhenAllowed ==
    hook.phase = "returned"
    => LET message == hook.call.message
           store == hook.store
       IN  /\ (IsCommand(message, JiraCreate) \/ IsCommand(message, JiraSubscribe))
              => /\ EffectsOfType(ModalTypes) # <<>>
                    => (store.installed /\ store.connected)
                 /\ ~(store.installed /\ store.connected)
                    => /\ EffectsOfType(ModalTypes) = <<>>
                       /\ hook.effects =
                             <<sendEphemeralPost(IF ~store.installed THEN NoInstanceMsg
                                                 ELSE NotConnectedMsg)>>
           /\ IsCommand(message, JiraConnect)
              => (EffectsOfType({"window.open"}) # <<>>
                  => (store.installed /\ ~store.connected))

\* '/jira create' with an instance installed and the user not connected has
\* dispatched the not-connected post and opened no modal
C21_Witness ==
    /\ hook.phase = "returned"
    /\ IsCommand(hook.call.message, JiraCreate)
    /\ hook.store.installed
    /\ ~hook.store.connected
    /\ hook.effects = <<sendEphemeralPost(NotConnectedMsg)>>

====
